---- MODULE Spec2Model ----
(***************************************************************************)
(* The setup plugin of wopr-plugin-setup: the in-memory session store      *)
(* (src/src/session-store.ts), the plugin's extension and shutdown hook    *)
(* (src/src/index.ts) and the A2A tool handlers of createSetupTools        *)
(* (src/unnamed/part_002).  A handler is one action per run of synchronous *)
(* code: it is split exactly at its `await`s on external calls             *)
(* (ctx.saveConfig, fetch), where the host may deliver the response later. *)
(***************************************************************************)
EXTENDS Integers, Sequences, FiniteSets, TLC

\* Number of operations (tool calls, beginSetup, shutdown) a behaviour issues.
MaxOps == 4

\* ------------------------------------------------------------------------
\* Data
\* ------------------------------------------------------------------------

SessionIds == {"s1", "s2"}
TargetPlugins == {"discord"}
DepPlugins == {"voice"}
Keys == {"a", "b"}
Tasks == {"t1", "t2"}
ObjIds == 1 .. (Cardinality(SessionIds) + Cardinality(Tasks))
NoObj == 0

\* JavaScript values an `args.value` can hold; a string is its characters.
Null == [t |-> "null", s |-> <<>>]
Undefined == [t |-> "undefined", s |-> <<>>]
Str(chars) == [t |-> "string", s |-> chars]
Num(digits) == [t |-> "number", s |-> digits]
Absent == [t |-> "absent", s |-> <<>>]
Values == {Null, Undefined, Str(<<>>), Str(<<"1", "2">>), Str(<<"x">>), Num(<<"7">>)}

Digits == {"0", "1", "2", "3", "4", "5", "6", "7", "8", "9"}
DigitsPattern == "^\\d+$"
NoPattern == ""

\* new RegExp(pattern).test(s), for the patterns the schemas use.
RegexTest(pattern, s) ==
  IF pattern = DigitsPattern
    THEN Len(s) > 0 /\ \A i \in 1 .. Len(s) : s[i] \in Digits
    ELSE TRUE

FieldA == [name |-> "a", required |-> TRUE, pattern |-> NoPattern, patternError |-> ""]
FieldB == [name |-> "b", required |-> FALSE, pattern |-> DigitsPattern,
           patternError |-> "Must be numeric"]
SchemaA == <<FieldA>>
SchemaAB == <<FieldA, FieldB>>
Schemas == {SchemaA, SchemaAB}

\* The configuration object of the host: undefined, or a mapping.
EmptyMap == [k \in Keys |-> Absent]
NoConfig == [defined |-> FALSE, m |-> EmptyMap]
Cfg(m) == [defined |-> TRUE, m |-> m]
InitConfigs == {NoConfig, Cfg(EmptyMap), Cfg([EmptyMap EXCEPT !["a"] = Str(<<"o">>)])}

\* SetupMutation
SaveMutation(key, value) ==
  [type |-> "saveConfig", key |-> key, value |-> value, pluginId |-> ""]
InstallMutation(pluginId) ==
  [type |-> "installDependency", key |-> "", value |-> Absent, pluginId |-> pluginId]

\* SetupSession; FreeObj is a heap cell that holds no session.
FreeObj ==
  [used |-> FALSE, sessionId |-> "", pluginId |-> "", configSchema |-> <<>>,
   mutations |-> <<>>, collectedValues |-> <<>>, completed |-> FALSE]

\* A2AToolResult: what the text says and the error flag.  `threw` marks a
\* handler whose promise rejected instead of resolving to a result.
textResult(text, isError) == [text |-> text, isError |-> isError, threw |-> FALSE]
NoResult == [text |-> "", isError |-> FALSE, threw |-> FALSE]
Rejected(text) == [text |-> text, isError |-> FALSE, threw |-> TRUE]

\* Calls on the external capabilities, as the host sees them.
NoCall == [c |-> "", id |-> "", sid |-> "", arg |-> EmptyMap, keys |-> <<>>]
CallSave(m) == [NoCall EXCEPT !.c = "saveConfig", !.arg = m]
CallInstall(p) == [NoCall EXCEPT !.c = "install", !.id = p]
CallUninstall(p) == [NoCall EXCEPT !.c = "uninstall", !.id = p]
CallEmit(p, sid, keys) ==
  [NoCall EXCEPT !.c = "setup:complete", !.id = p, !.sid = sid, !.keys = keys]
CallValidate(provider, key) == [NoCall EXCEPT !.c = "validate", !.id = provider, !.sid = key]
CallHealth(service) == [NoCall EXCEPT !.c = "health", !.id = service]

VARIABLES
  sessions,   \* session-store.ts `sessions`: sessionId -> heap cell, NoObj if absent
  heap,       \* the SetupSession objects
  config,     \* what ctx.getConfig() returns
  hostLive,   \* whether ctx.getConfig() hands out the host's own object or a copy
  op,         \* per task: the handler it runs, where it is, its locals, its result
  nops        \* operations issued so far

vars == <<sessions, heap, config, hostLive, op, nops>>

\* ------------------------------------------------------------------------
\* Helpers
\* ------------------------------------------------------------------------

\* Mutant of Reverse: the copy is walked in insertion order.
ReverseForgotten(xs) == xs

\* [...xs].reverse()
Reverse(xs) == [j \in 1 .. Len(xs) |-> xs[Len(xs) + 1 - j]]

\* fields.find((f) => f.name === key): the index of the first match, 0 if none.
FindField(fields, key) ==
  IF \E j \in 1 .. Len(fields) : fields[j].name = key
    THEN CHOOSE j \in 1 .. Len(fields) :
           /\ fields[j].name = key
           /\ \A l \in 1 .. (j - 1) : fields[l].name # key
    ELSE 0

\* Mutant of ValidateField: a value that is not a string fails the pattern.
ValidateFieldPatternOnAny(fields, key, value) ==
  LET j == FindField(fields, key) IN
  IF j = 0 THEN "Unknown config field"
  ELSE LET field == fields[j] IN
    IF field.required /\ (value = Null \/ value = Undefined \/ value = Str(<<>>))
      THEN "is required and cannot be empty"
    ELSE IF /\ field.pattern # NoPattern
            /\ (value.t # "string" \/ ~RegexTest(field.pattern, value.s))
      THEN (IF field.patternError # "" THEN field.patternError
            ELSE "does not match pattern")
    ELSE "accepted"

\* The checks saveConfig makes on (key, value) before it touches anything:
\* "accepted", or the text of the error result.
ValidateField(fields, key, value) ==
  LET j == FindField(fields, key) IN
  IF j = 0 THEN "Unknown config field"
  ELSE LET field == fields[j] IN
    IF field.required /\ (value = Null \/ value = Undefined \/ value = Str(<<>>))
      THEN "is required and cannot be empty"
    ELSE IF /\ field.pattern # NoPattern
            /\ value.t = "string"
            /\ ~RegexTest(field.pattern, value.s)
      THEN (IF field.patternError # "" THEN field.patternError
            ELSE "does not match pattern")
    ELSE "accepted"

\* Mutant of MapSet: an existing entry keeps its value.
MapSetFirstWins(m, k, v) ==
  IF \E j \in 1 .. Len(m) : m[j].k = k THEN m
  ELSE Append(m, [k |-> k, v |-> v])

\* Mutant of MapSet: the map is left with the new entry only.
MapSetDropsOthers(m, k, v) == <<[k |-> k, v |-> v]>>

\* Map.prototype.set on collectedValues: an insertion-ordered list of entries.
MapSet(m, k, v) ==
  IF \E j \in 1 .. Len(m) : m[j].k = k
    THEN [j \in 1 .. Len(m) |-> IF m[j].k = k THEN [k |-> k, v |-> v] ELSE m[j]]
    ELSE Append(m, [k |-> k, v |-> v])

\* Array.from(collectedValues.keys())
MapKeys(m) == [j \in 1 .. Len(m) |-> m[j].k]

\* ctx.getConfig() ?? {}: the host's own object (live) or a private mapping.
GetConfig(cf) ==
  IF cf.defined THEN [live |-> hostLive, m |-> cf.m]
  ELSE [live |-> FALSE, m |-> EmptyMap]

\* The host's configuration once ctx.saveConfig(currentConfig) has resolved.
HostSaved(cf, cc) == IF cc.live THEN cf ELSE Cfg(cc.m)

\* session-store.ts
createSession(sessionId, pluginId, configSchema) ==
  [used |-> TRUE, sessionId |-> sessionId, pluginId |-> pluginId,
   configSchema |-> configSchema, mutations |-> <<>>, collectedValues |-> <<>>,
   completed |-> FALSE]
getSession(ss, sessionId) == ss[sessionId]
\* Mutant of deleteSession: the whole store is emptied.
deleteSessionClearsAll(ss, sessionId) == [s \in SessionIds |-> NoObj]

deleteSession(ss, sessionId) == [ss EXCEPT ![sessionId] = NoObj]
\* Mutant of isSetupActive: any stored session counts as active.
isSetupActiveIgnoresCompleted(ss, hp, sessionId) == ss[sessionId] # NoObj

isSetupActive(ss, hp, sessionId) ==
  ss[sessionId] # NoObj /\ ~hp[ss[sessionId]].completed
clearAllSessions(ss) == [s \in SessionIds |-> NoObj]

\* A session object lives as long as the store or a handler refers to it.
Referenced(t) ==
  {sessions[s] : s \in SessionIds} \cup {op[u].obj : u \in Tasks \ {t}}
Swept(t) == [o \in ObjIds |-> IF o \in Referenced(t) THEN heap[o] ELSE FreeObj]
NewObj(hp) == CHOOSE o \in ObjIds : ~hp[o].used /\ \A l \in 1 .. (o - 1) : hp[l].used

\* ------------------------------------------------------------------------
\* Handler state
\* ------------------------------------------------------------------------

Snapshot(hp) == [config |-> config, sessions |-> sessions, heap |-> hp]
IdleOp ==
  [name |-> "none", pc |-> "idle", sid |-> "", obj |-> NoObj, key |-> "",
   value |-> Absent, pluginId |-> "", configSchema |-> <<>>,
   currentConfig |-> [live |-> FALSE, m |-> EmptyMap],
   reversed |-> <<>>, i |-> 0, errors |-> <<>>, calls |-> <<>>,
   provider |-> "", validation |-> [valid |-> "", error |-> ""], outcome |-> "",
   cleared |-> <<>>,
   result |-> NoResult, failed |-> 0,
   before |-> [set |-> FALSE, key |-> "", was |-> Absent],
   pre |-> [config |-> NoConfig, sessions |-> [s \in SessionIds |-> NoObj],
            heap |-> [o \in ObjIds |-> FreeObj]]]

\* A handler's frame on entry.  Three fields are history, not locals: `pre` is
\* the state the handler was called in, `failed` counts the awaited calls that
\* did not succeed, `cleared` is the ledger a rollback emptied, `outcome` is how the awaited call of a validateKey or
\* testConnection settled, and `before` (on a rollback that directly follows a
\* successful saveConfig of the same session) is what that key held before it.
Frame(t, name, sid) ==
  [IdleOp EXCEPT !.name = name, !.sid = sid, !.pc = "running",
                 !.pre = Snapshot(Swept(t))]
Return(o, result) == [o EXCEPT !.pc = "done", !.result = result]

\* The caller issues an operation on task t.
Issue(t) ==
  /\ op[t].pc \in {"idle", "done"}
  /\ nops < MaxOps
  /\ nops' = nops + 1
  /\ UNCHANGED hostLive

Init ==
  /\ sessions = [s \in SessionIds |-> NoObj]
  /\ heap = [o \in ObjIds |-> FreeObj]
  /\ config \in InitConfigs
  /\ hostLive \in BOOLEAN
  /\ op = [t \in Tasks |-> IdleOp]
  /\ nops = 0

\* ------------------------------------------------------------------------
\* index.ts: the extension and the shutdown hook
\* ------------------------------------------------------------------------

\* Mutant of beginSetup: a session already stored under the id is kept.
beginSetupKeepsExisting(t, sessionId, pluginId, configSchema) ==
  /\ Issue(t)
  /\ LET hp == Swept(t)
         o == IF getSession(sessions, sessionId) # NoObj
                THEN getSession(sessions, sessionId) ELSE NewObj(hp)
     IN /\ heap' = IF getSession(sessions, sessionId) # NoObj THEN hp
                   ELSE [hp EXCEPT ![o] = createSession(sessionId, pluginId, configSchema)]
        /\ sessions' = [sessions EXCEPT ![sessionId] = o]
        /\ op' = [op EXCEPT ![t] =
                   Return([Frame(t, "beginSetup", sessionId) EXCEPT
                             !.obj = o, !.pluginId = pluginId,
                             !.configSchema = configSchema],
                          NoResult)]
  /\ UNCHANGED config

\* extension.beginSetup: createSession(sessionId, pluginId, configSchema)
beginSetup(t, sessionId, pluginId, configSchema) ==
  /\ Issue(t)
  /\ LET hp == Swept(t)
         o == NewObj(hp)
     IN /\ heap' = [hp EXCEPT ![o] = createSession(sessionId, pluginId, configSchema)]
        /\ sessions' = [sessions EXCEPT ![sessionId] = o]
        /\ op' = [op EXCEPT ![t] =
                   Return([Frame(t, "beginSetup", sessionId) EXCEPT
                             !.obj = o, !.pluginId = pluginId,
                             !.configSchema = configSchema],
                          NoResult)]
  /\ UNCHANGED config

shutdown(t) ==
  /\ Issue(t)
  /\ heap' = Swept(t)
  /\ sessions' = clearAllSessions(sessions)
  /\ op' = [op EXCEPT ![t] = Return(Frame(t, "shutdown", ""), NoResult)]
  /\ UNCHANGED config

\* ------------------------------------------------------------------------
\* createSetupTools: the tool handlers
\* ------------------------------------------------------------------------

\* Mutant of NoSession: the missing session is reported without the error tag.
NoSessionNotFlagged == textResult("No active setup session", FALSE)

NoSession == textResult("No active setup session", TRUE)

\* setup.ask
ask(t, sessionId) ==
  /\ Issue(t)
  /\ LET o == getSession(sessions, sessionId)
         f == Frame(t, "ask", sessionId)
     IN op' = [op EXCEPT ![t] =
                 IF o = NoObj THEN Return(f, NoSession)
                 ELSE Return([f EXCEPT !.obj = o], textResult("Please provide", FALSE))]
  /\ heap' = Swept(t)
  /\ UNCHANGED <<sessions, config>>

\* validators.ts: the providers the `validators` object has an own entry for,
\* with the label of their error message.
SupportedProviders == {"anthropic", "openai", "discord", "telegram"}
ProviderLabel(provider) ==
  CASE provider = "anthropic" -> "Anthropic"
    [] provider = "openai" -> "OpenAI"
    [] provider = "discord" -> "Discord"
    [] provider = "telegram" -> "Telegram"

\* The provider names and API keys the tool is called with.
Providers == {"anthropic", "telegram", "unknown-provider", "constructor", "__proto__"}
ApiKeys == {"x"}

\* `validators[provider]`: a property read on an object literal, which finds
\* the object's own entries and, for a name like "constructor" or "__proto__",
\* what it inherits from Object.prototype: the Object function, or the
\* prototype object itself.
ValidatorsLookup(provider) ==
  IF provider \in SupportedProviders THEN "validator"
  ELSE IF provider = "constructor" THEN "Object"
  ELSE IF provider = "__proto__" THEN "Object.prototype"
  ELSE "undefined"

\* ValidationResult; valid is "true", "false", or "undefined" when the value
\* returned has no such property.
Validation(valid, error) == [valid |-> valid, error |-> error]

\* The end of the setup.validateKey handler: `if (result.valid)`.
ValidateKeyResult(validation) ==
  IF validation.valid = "true" THEN textResult("Key validated successfully", FALSE)
  ELSE textResult("Key validation failed: " \o validation.error, TRUE)

\* setup.validateKey and validateKey(provider, key) up to the validator's
\* `await fetch`.  With no validator function found: undefined returns the
\* "Unknown provider" result; Object(key) returns a String object, which has
\* neither valid nor error; calling Object.prototype is a TypeError, which
\* rejects validateKey and, with no try in the handler, the handler.
validateKeyCall(t, provider, key) ==
  /\ Issue(t)
  /\ heap' = Swept(t)
  /\ UNCHANGED <<sessions, config>>
  /\ LET f == [Frame(t, "validateKey", "") EXCEPT !.provider = provider]
         fn == ValidatorsLookup(provider)
     IN op' = [op EXCEPT ![t] =
          IF fn = "undefined"
            THEN LET v == Validation("false", "Unknown provider")
                 IN Return([f EXCEPT !.validation = v], ValidateKeyResult(v))
          ELSE IF fn = "Object"
            THEN LET v == Validation("undefined", "undefined")
                 IN Return([f EXCEPT !.validation = v], ValidateKeyResult(v))
          ELSE IF fn = "Object.prototype"
            THEN Return(f, Rejected("TypeError: fn is not a function"))
          ELSE [f EXCEPT !.pc = "awaitFetch", !.calls = <<CallValidate(provider, key)>>]]

\* A validator from the settling of its fetch on, and the rest of the
\* handler: "ok" is res.ok, "fail" any other response whose text() resolved,
\* "throw" a rejected fetch or text().
validateKeyReturn(t, outcome) ==
  /\ op[t].name = "validateKey" /\ op[t].pc = "awaitFetch"
  /\ LET o == op[t]
         v == IF outcome = "ok" THEN Validation("true", "")
              ELSE IF outcome = "fail"
                THEN Validation("false", ProviderLabel(o.provider) \o " API returned")
              ELSE Validation("false", "Network error")
     IN op' = [op EXCEPT ![t] =
                 Return([o EXCEPT !.validation = v, !.outcome = outcome,
                                  !.failed = IF outcome = "ok" THEN 0 ELSE 1],
                        ValidateKeyResult(v))]
  /\ UNCHANGED <<sessions, heap, config, hostLive, nops>>

\* setup.installDependency up to `await fetch(.../plugins/install)`
installDependencyCall(t, sessionId, pluginId) ==
  /\ Issue(t)
  /\ LET o == getSession(sessions, sessionId)
         f == Frame(t, "installDependency", sessionId)
     IN op' = [op EXCEPT ![t] =
                 IF o = NoObj THEN Return(f, NoSession)
                 ELSE [f EXCEPT !.obj = o, !.pluginId = pluginId, !.pc = "awaitFetch",
                                !.calls = <<CallInstall(pluginId)>>]]
  /\ heap' = Swept(t)
  /\ UNCHANGED <<sessions, config>>

\* Mutant of installDependencyReturn: only a thrown error counts as a failure,
\* a response that is not a success is recorded like a success.
installDependencyReturnTrustsResponse(t, outcome) ==
  /\ op[t].name = "installDependency" /\ op[t].pc = "awaitFetch"
  /\ LET o == op[t] IN
     IF outcome # "throw"
       THEN /\ heap' = [heap EXCEPT ![o.obj].mutations =
                          Append(@, InstallMutation(o.pluginId))]
            /\ op' = [op EXCEPT ![t] =
                 Return([o EXCEPT !.failed = IF outcome = "ok" THEN 0 ELSE 1],
                        textResult("Successfully installed", FALSE))]
       ELSE /\ heap' = heap
            /\ op' = [op EXCEPT ![t] = Return([o EXCEPT !.failed = 1],
                                              textResult("Failed to install", TRUE))]
  /\ UNCHANGED <<sessions, config, hostLive, nops>>

\* setup.installDependency from the response on: "ok" is res.ok with
\* body.success, "fail" any other response, "throw" a rejected fetch or json().
installDependencyReturn(t, outcome) ==
  /\ op[t].name = "installDependency" /\ op[t].pc = "awaitFetch"
  /\ LET o == op[t] IN
     IF outcome = "ok"
       THEN /\ heap' = [heap EXCEPT ![o.obj].mutations =
                          Append(@, InstallMutation(o.pluginId))]
            /\ op' = [op EXCEPT ![t] = Return(o, textResult("Successfully installed", FALSE))]
       ELSE /\ heap' = heap
            /\ op' = [op EXCEPT ![t] = Return([o EXCEPT !.failed = 1],
                                              textResult("Failed to install", TRUE))]
  /\ UNCHANGED <<sessions, config, hostLive, nops>>

\* The services setup.testConnection is called for.
Services == {"discord"}

\* setup.testConnection up to `await fetch(.../plugins/<service>/health)`
testConnectionCall(t, service) ==
  /\ Issue(t)
  /\ heap' = Swept(t)
  /\ UNCHANGED <<sessions, config>>
  /\ op' = [op EXCEPT ![t] =
       [Frame(t, "testConnection", "") EXCEPT
          !.provider = service, !.pc = "awaitFetch", !.calls = <<CallHealth(service)>>]]

\* setup.testConnection from the settling of the fetch on: "ok" is res.ok,
\* "fail" any other response whose text() resolved, "throw" a rejected fetch
\* or text().
testConnectionReturn(t, outcome) ==
  /\ op[t].name = "testConnection" /\ op[t].pc = "awaitFetch"
  /\ op' = [op EXCEPT ![t] =
       Return([@ EXCEPT !.outcome = outcome, !.failed = IF outcome = "ok" THEN 0 ELSE 1],
              IF outcome = "ok" THEN textResult("Connection is healthy", FALSE)
              ELSE IF outcome = "fail"
                THEN textResult("Connection test failed: HTTP", TRUE)
              ELSE textResult("Connection test failed", TRUE))]
  /\ UNCHANGED <<sessions, heap, config, hostLive, nops>>

\* setup.saveConfig up to `await ctx.saveConfig(currentConfig)`
saveConfigCall(t, sessionId, key, value) ==
  /\ Issue(t)
  /\ heap' = Swept(t)
  /\ UNCHANGED sessions
  /\ LET o == getSession(sessions, sessionId)
         f == Frame(t, "saveConfig", sessionId)
     IN
     IF o = NoObj
       THEN /\ op' = [op EXCEPT ![t] = Return(f, NoSession)]
            /\ UNCHANGED config
     ELSE LET g == [f EXCEPT !.obj = o, !.key = key, !.value = value]
              verdict == ValidateField(heap[o].configSchema, key, value)
          IN
          IF verdict # "accepted"
            THEN /\ op' = [op EXCEPT ![t] = Return(g, textResult(verdict, TRUE))]
                 /\ UNCHANGED config
          ELSE LET cc == GetConfig(config)
                   m == [cc.m EXCEPT ![key] = value]
               IN /\ config' = IF cc.live THEN Cfg(m) ELSE config
                  /\ op' = [op EXCEPT ![t] =
                             [g EXCEPT !.currentConfig = [live |-> cc.live, m |-> m],
                                       !.pc = "awaitSaveConfig",
                                       !.calls = <<CallSave(m)>>]]

\* Mutant of saveConfigReturn: the mutation is recorded before the outcome of
\* ctx.saveConfig is known.
saveConfigReturnRecordsAnyway(t, ok) ==
  /\ op[t].name = "saveConfig" /\ op[t].pc = "awaitSaveConfig"
  /\ LET o == op[t] IN
     /\ heap' = [heap EXCEPT
          ![o.obj].mutations = Append(@, SaveMutation(o.key, o.value)),
          ![o.obj].collectedValues = MapSet(@, o.key, o.value)]
     /\ IF ok
          THEN /\ config' = HostSaved(config, o.currentConfig)
               /\ op' = [op EXCEPT ![t] = Return(o, textResult("Saved", FALSE))]
          ELSE /\ UNCHANGED config
               /\ op' = [op EXCEPT ![t] = Return([o EXCEPT !.failed = 1],
                                                 textResult("Failed to save", TRUE))]
  /\ UNCHANGED <<sessions, hostLive, nops>>

\* Mutant of saveConfigReturn: an earlier ledger entry for the same key is
\* replaced by the new one.
saveConfigReturnRewrites(t, ok) ==
  /\ op[t].name = "saveConfig" /\ op[t].pc = "awaitSaveConfig"
  /\ LET o == op[t]
         old == heap[o.obj].mutations
         kept == SelectSeq(old, LAMBDA e : ~(e.type = "saveConfig" /\ e.key = o.key))
     IN
     IF ok
       THEN /\ config' = HostSaved(config, o.currentConfig)
            /\ heap' = [heap EXCEPT
                 ![o.obj].mutations = Append(kept, SaveMutation(o.key, o.value)),
                 ![o.obj].collectedValues = MapSet(@, o.key, o.value)]
            /\ op' = [op EXCEPT ![t] = Return(o, textResult("Saved", FALSE))]
       ELSE /\ UNCHANGED <<config, heap>>
            /\ op' = [op EXCEPT ![t] = Return([o EXCEPT !.failed = 1],
                                              textResult("Failed to save", TRUE))]
  /\ UNCHANGED <<sessions, hostLive, nops>>

\* setup.saveConfig from the settling of ctx.saveConfig on
saveConfigReturn(t, ok) ==
  /\ op[t].name = "saveConfig" /\ op[t].pc = "awaitSaveConfig"
  /\ LET o == op[t] IN
     IF ok
       THEN /\ config' = HostSaved(config, o.currentConfig)
            /\ heap' = [heap EXCEPT
                 ![o.obj].mutations = Append(@, SaveMutation(o.key, o.value)),
                 ![o.obj].collectedValues = MapSet(@, o.key, o.value)]
            /\ op' = [op EXCEPT ![t] = Return(o, textResult("Saved", FALSE))]
       ELSE /\ UNCHANGED <<config, heap>>
            /\ op' = [op EXCEPT ![t] = Return([o EXCEPT !.failed = 1],
                                              textResult("Failed to save", TRUE))]
  /\ UNCHANGED <<sessions, hostLive, nops>>

\* Mutant of AlreadyCompleted: the guard is missing.
AlreadyCompletedUnchecked(session) == FALSE

\* `if (session.completed)` of setup.complete
AlreadyCompleted(session) == session.completed

\* Mutant of complete: the session is removed from the store once completed.
completeDeletes(t, sessionId, emitThrows) ==
  /\ Issue(t)
  /\ UNCHANGED config
  /\ LET o == getSession(sessions, sessionId)
         hp == Swept(t)
         f == Frame(t, "complete", sessionId)
     IN
     IF o = NoObj
       THEN /\ op' = [op EXCEPT ![t] = Return(f, NoSession)]
            /\ heap' = hp
            /\ UNCHANGED sessions
     ELSE IF AlreadyCompleted(hp[o])
       THEN /\ op' = [op EXCEPT ![t] =
                       Return([f EXCEPT !.obj = o],
                              textResult("Setup already completed.", TRUE))]
            /\ heap' = hp
            /\ UNCHANGED sessions
     ELSE /\ heap' = [hp EXCEPT ![o].completed = TRUE]
          /\ sessions' = deleteSession(sessions, sessionId)
          /\ op' = [op EXCEPT ![t] =
               Return([f EXCEPT !.obj = o,
                         !.calls = <<CallEmit(hp[o].pluginId, sessionId,
                                               MapKeys(hp[o].collectedValues))>>],
                      IF emitThrows THEN Rejected("emit threw")
                      ELSE textResult("Setup complete", FALSE))]

\* setup.complete; ctx.events.emit is synchronous and may throw.
complete(t, sessionId, emitThrows) ==
  /\ Issue(t)
  /\ UNCHANGED <<sessions, config>>
  /\ LET o == getSession(sessions, sessionId)
         hp == Swept(t)
         f == Frame(t, "complete", sessionId)
     IN
     IF o = NoObj
       THEN /\ op' = [op EXCEPT ![t] = Return(f, NoSession)]
            /\ heap' = hp
     ELSE IF AlreadyCompleted(hp[o])
       THEN /\ op' = [op EXCEPT ![t] =
                       Return([f EXCEPT !.obj = o],
                              textResult("Setup already completed.", TRUE))]
            /\ heap' = hp
     ELSE /\ heap' = [hp EXCEPT ![o].completed = TRUE]
          /\ op' = [op EXCEPT ![t] =
               Return([f EXCEPT !.obj = o,
                         !.calls = <<CallEmit(hp[o].pluginId, sessionId,
                                               MapKeys(hp[o].collectedValues))>>],
                      IF emitThrows THEN Rejected("emit threw")
                      ELSE textResult("Setup complete", FALSE))]

\* The configuration a handler reads at `key`.
ValueAt(cf, key) == IF cf.defined THEN cf.m[key] ELSE Absent

\* Mutant of RollbackIssue: the configuration is persisted again without the
\* key having been deleted from it.
RollbackIssueKeepsKey(o, cf, hp, ss) ==
  LET mutation == o.reversed[o.i] IN
  IF mutation.type = "saveConfig"
    THEN LET cc == GetConfig(cf)
         IN [op |-> [o EXCEPT !.pc = "awaitSaveConfig",
                              !.currentConfig = [live |-> cc.live, m |-> cc.m],
                              !.calls = Append(@, CallSave(cc.m))],
             config |-> cf, heap |-> hp, sessions |-> ss]
    ELSE [op |-> [o EXCEPT !.pc = "awaitFetch",
                           !.calls = Append(@, CallUninstall(mutation.pluginId))],
          config |-> cf, heap |-> hp, sessions |-> ss]

\* setup.rollback, one turn of the loop up to its await: the compensation of
\* mutation o.reversed[o.i].
RollbackIssue(o, cf, hp, ss) ==
  LET mutation == o.reversed[o.i] IN
  IF mutation.type = "saveConfig"
    THEN LET cc == GetConfig(cf)
             m == [cc.m EXCEPT ![mutation.key] = Absent]
         IN [op |-> [o EXCEPT !.pc = "awaitSaveConfig",
                              !.currentConfig = [live |-> cc.live, m |-> m],
                              !.calls = Append(@, CallSave(m))],
             config |-> IF cc.live THEN Cfg(m) ELSE cf,
             heap |-> hp, sessions |-> ss]
    ELSE [op |-> [o EXCEPT !.pc = "awaitFetch",
                           !.calls = Append(@, CallUninstall(mutation.pluginId))],
          config |-> cf, heap |-> hp, sessions |-> ss]

\* Mutant of RollbackFinish: the cleanup is skipped when a compensation failed.
RollbackFinishUnlessFailed(o, cf, hp, ss) ==
  [op |-> Return(o, IF Len(o.errors) > 0
                      THEN textResult("Rollback completed with errors", TRUE)
                      ELSE textResult("Rollback complete. All changes undone.", FALSE)),
   config |-> cf,
   heap |-> IF Len(o.errors) > 0 THEN hp
            ELSE [hp EXCEPT ![o.obj].mutations = <<>>, ![o.obj].collectedValues = <<>>],
   sessions |-> IF Len(o.errors) > 0 THEN ss ELSE [ss EXCEPT ![o.sid] = NoObj]]

\* setup.rollback past the loop: the cleanup and the result.
RollbackFinish(o, cf, hp, ss) ==
  [op |-> Return([o EXCEPT !.cleared = hp[o.obj].mutations],
                 IF Len(o.errors) > 0
                      THEN textResult("Rollback completed with errors", TRUE)
                      ELSE textResult("Rollback complete. All changes undone.", FALSE)),
   config |-> cf,
   heap |-> [hp EXCEPT ![o.obj].mutations = <<>>, ![o.obj].collectedValues = <<>>],
   sessions |-> deleteSession(ss, o.sid)]

\* Mutant of RollbackRun: the loop ends at the first failed compensation.
RollbackRunShortCircuit(o, cf, hp, ss) ==
  IF o.i <= Len(o.reversed) /\ Len(o.errors) = 0 THEN RollbackIssue(o, cf, hp, ss)
  ELSE RollbackFinish(o, cf, hp, ss)

\* Mutant of RollbackRun: the compensation after the next one is started
\* together with it, without waiting for it to settle.
RollbackRunTwoAtOnce(o, cf, hp, ss) ==
  IF o.i <= Len(o.reversed)
    THEN LET n == RollbackIssue(o, cf, hp, ss)
         IN IF o.i < Len(o.reversed)
              THEN [n EXCEPT !.op.calls =
                      Append(@, IF o.reversed[o.i + 1].type = "saveConfig"
                                  THEN CallSave(n.op.currentConfig.m)
                                  ELSE CallUninstall(o.reversed[o.i + 1].pluginId))]
              ELSE n
  ELSE RollbackFinish(o, cf, hp, ss)

\* setup.rollback: `for (const mutation of reversed)` from index o.i on.
RollbackRun(o, cf, hp, ss) ==
  IF o.i <= Len(o.reversed) THEN RollbackIssue(o, cf, hp, ss)
  ELSE RollbackFinish(o, cf, hp, ss)

\* Mutant of RollbackErrors: a thrown error is swallowed, not recorded.
RollbackErrorsSwallowThrow(o, outcome) ==
  IF outcome = "fail"
    THEN Append(o.errors, "Failed to uninstall " \o o.reversed[o.i].pluginId)
  ELSE o.errors

\* setup.rollback: the `errors` list once the awaited call has settled.
RollbackErrors(o, outcome) ==
  IF outcome = "fail"
    THEN Append(o.errors, "Failed to uninstall " \o o.reversed[o.i].pluginId)
  ELSE IF outcome = "throw" THEN Append(o.errors, "Rollback error")
  ELSE o.errors

\* setup.rollback up to its first await (or to its end, on an empty ledger)
rollbackCall(t, sessionId) ==
  /\ Issue(t)
  /\ LET o == getSession(sessions, sessionId)
         hp == Swept(t)
         last == op[t]
         f == [Frame(t, "rollback", sessionId) EXCEPT !.before =
                 IF /\ last.pc = "done" /\ last.name = "saveConfig"
                    /\ last.sid = sessionId /\ last.result.text = "Saved"
                   THEN [set |-> TRUE, key |-> last.key,
                         was |-> ValueAt(last.pre.config, last.key)]
                   ELSE @]
     IN
     IF o = NoObj
       THEN /\ op' = [op EXCEPT ![t] = Return(f, NoSession)]
            /\ heap' = hp
            /\ UNCHANGED <<sessions, config>>
     ELSE LET n == RollbackRun([f EXCEPT !.obj = o, !.i = 1,
                                         !.reversed = Reverse(hp[o].mutations)],
                               config, hp, sessions)
          IN /\ op' = [op EXCEPT ![t] = n.op]
             /\ config' = n.config
             /\ heap' = n.heap
             /\ sessions' = n.sessions

\* Mutant of rollbackReturn: a compensation that failed is tried once more.
rollbackReturnRetriesOnce(t, outcome) ==
  /\ op[t].name = "rollback" /\ op[t].pc \in {"awaitSaveConfig", "awaitFetch"}
  /\ op[t].pc = "awaitSaveConfig" => outcome # "fail"
  /\ LET o == op[t]
         cf == IF o.pc = "awaitSaveConfig" /\ outcome = "ok"
                 THEN HostSaved(config, o.currentConfig) ELSE config
         n == IF outcome # "ok" /\ Len(o.calls) = o.i
                THEN [op |-> [o EXCEPT !.calls = Append(@, o.calls[o.i])],
                      config |-> cf, heap |-> heap, sessions |-> sessions]
                ELSE RollbackRun([o EXCEPT !.errors = RollbackErrors(o, outcome),
                                           !.failed = IF outcome = "ok" THEN @ ELSE @ + 1,
                                           !.i = o.i + 1],
                                 cf, heap, sessions)
     IN /\ op' = [op EXCEPT ![t] = n.op]
        /\ config' = n.config
        /\ heap' = n.heap
        /\ sessions' = n.sessions
  /\ UNCHANGED <<hostLive, nops>>

\* setup.rollback from the settling of the awaited call on: "ok", "fail" (an
\* uninstall response that is not res.ok) or "throw".
rollbackReturn(t, outcome) ==
  /\ op[t].name = "rollback" /\ op[t].pc \in {"awaitSaveConfig", "awaitFetch"}
  /\ op[t].pc = "awaitSaveConfig" => outcome # "fail"
  /\ LET o == op[t]
         cf == IF o.pc = "awaitSaveConfig" /\ outcome = "ok"
                 THEN HostSaved(config, o.currentConfig) ELSE config
         n == RollbackRun([o EXCEPT !.errors = RollbackErrors(o, outcome),
                                    !.failed = IF outcome = "ok" THEN @ ELSE @ + 1,
                                    !.i = o.i + 1],
                          cf, heap, sessions)
     IN /\ op' = [op EXCEPT ![t] = n.op]
        /\ config' = n.config
        /\ heap' = n.heap
        /\ sessions' = n.sessions
  /\ UNCHANGED <<hostLive, nops>>

\* ------------------------------------------------------------------------
\* Specifications
\* ------------------------------------------------------------------------

Outcomes == {"ok", "fail", "throw"}

\* The steps task t can take of an operation for one of the session ids `ids`,
\* saving values out of `values`.
SessionStep(t, ids, values) ==
  \/ \E sid \in ids, p \in TargetPlugins, sch \in Schemas : beginSetup(t, sid, p, sch)
  \/ \E sid \in ids : ask(t, sid)
  \/ \E sid \in ids, p \in DepPlugins : installDependencyCall(t, sid, p)
  \/ \E outcome \in Outcomes : installDependencyReturn(t, outcome)
  \/ \E sid \in ids, k \in Keys, v \in values : saveConfigCall(t, sid, k, v)
  \/ \E ok \in BOOLEAN : saveConfigReturn(t, ok)
  \/ \E sid \in ids, emitThrows \in BOOLEAN : complete(t, sid, emitThrows)
  \/ \E sid \in ids : rollbackCall(t, sid)
  \/ \E outcome \in Outcomes : rollbackReturn(t, outcome)

\* The operations task t can take a step of.
Step(t) ==
  \/ SessionStep(t, SessionIds, Values)
  \/ shutdown(t)
  \/ \E provider \in Providers, key \in ApiKeys : validateKeyCall(t, provider, key)
  \/ \E outcome \in Outcomes : validateKeyReturn(t, outcome)
  \/ \E service \in Services : testConnectionCall(t, service)
  \/ \E outcome \in Outcomes : testConnectionReturn(t, outcome)

\* The caller serialises: one request/response pair completes before the next.
Next == Step("t1")

Spec == Init /\ [][Next]_vars

\* ------------------------------------------------------------------------
\* Properties
\* ------------------------------------------------------------------------

\* Task t runs or has run setup.rollback on a session that was in the store.
RollbackOf(t) == op[t].name = "rollback" /\ op[t].obj # NoObj
RollbackDone(t) == RollbackOf(t) /\ op[t].pc = "done"
\* The ledger of that session when the rollback was called.
LedgerBefore(t) == op[t].pre.heap[op[t].obj].mutations

\* An external call that is the compensation of a mutation: a ctx.saveConfig
\* of a configuration without the key, or an uninstall of the plugin.
Compensates(call, mutation) ==
  IF mutation.type = "saveConfig"
    THEN call.c = "saveConfig" /\ call.arg[mutation.key] = Absent
    ELSE call.c = "uninstall" /\ call.id = mutation.pluginId

\* C1: the j-th compensation a rollback attempts is the one of the j-th
\* mutation counted from the end of the ledger, whatever failed before it; a
\* rollback that has returned has gone through the whole ledger this way.
C1_ReverseInsertionOrder ==
  \A t \in Tasks : RollbackOf(t) =>
    LET led == LedgerBefore(t)
        n == Len(led)
        calls == op[t].calls
    IN /\ Len(calls) <= n
       /\ \A j \in 1 .. Len(calls) : Compensates(calls[j], led[n + 1 - j])
       /\ op[t].pc = "done" => Len(calls) = n

\* C1 witness: a rollback returned from a two-entry ledger of both mutation
\* types after its first compensation had failed.
C1_Witness ==
  \E t \in Tasks :
    /\ RollbackDone(t)
    /\ Len(LedgerBefore(t)) = 2
    /\ LedgerBefore(t)[1].type # LedgerBefore(t)[2].type
    /\ op[t].failed = 2

\* C2: when a rollback returns, every mutation of the ledger has had exactly
\* one compensation attempt, however many of them failed: there are as many
\* uninstall calls for a plugin as installDependency entries for it, as many
\* ctx.saveConfig calls as saveConfig entries, and no other call.
C2_EveryMutationAttemptedOnce ==
  \A t \in Tasks : RollbackDone(t) =>
    LET led == LedgerBefore(t)
        calls == op[t].calls
    IN /\ \A p \in DepPlugins :
            Cardinality({j \in 1 .. Len(calls) :
                           calls[j].c = "uninstall" /\ calls[j].id = p})
              = Cardinality({j \in 1 .. Len(led) :
                               led[j].type = "installDependency" /\ led[j].pluginId = p})
       /\ Cardinality({j \in 1 .. Len(calls) : calls[j].c = "saveConfig"})
            = Cardinality({j \in 1 .. Len(led) : led[j].type = "saveConfig"})
       /\ \A j \in 1 .. Len(calls) : calls[j].c \in {"uninstall", "saveConfig"}

\* C2 witness: ledger [saveConfig, installDependency]; the uninstall, attempted
\* first, failed, and the ctx.saveConfig for the key was still called.
C2_Witness ==
  \E t \in Tasks :
    /\ RollbackDone(t)
    /\ Len(LedgerBefore(t)) = 2
    /\ LedgerBefore(t)[1].type = "saveConfig"
    /\ LedgerBefore(t)[2].type = "installDependency"
    /\ op[t].errors = <<"Failed to uninstall voice">>
    /\ op[t].calls[2].c = "saveConfig"

\* C3: when a rollback of a stored session has returned, the store has no
\* session under that id and the session object's ledger and collectedValues
\* are empty, with or without failed compensations.
C3_CleanupUnconditional ==
  \A t \in Tasks : RollbackDone(t) =>
    /\ getSession(sessions, op[t].sid) = NoObj
    /\ heap[op[t].obj].mutations = <<>>
    /\ heap[op[t].obj].collectedValues = <<>>

\* C3 witness: a rollback with a failed compensation returned for a session
\* that had a ledger and collected values.
C3_Witness ==
  \E t \in Tasks :
    /\ RollbackDone(t)
    /\ op[t].failed > 0
    /\ LedgerBefore(t) # <<>>
    /\ op[t].pre.heap[op[t].obj].collectedValues # <<>>

\* C4: a returned rollback is an error result exactly when a compensation
\* failed; it carries one message per failed compensation, and without a
\* failure it is the success result.
C4_ErrorIffCompensationFailed ==
  \A t \in Tasks : RollbackDone(t) =>
    /\ ~op[t].result.threw
    /\ op[t].result.isError <=> op[t].failed > 0
    /\ Len(op[t].errors) = op[t].failed
    /\ op[t].failed = 0 => op[t].result.text = "Rollback complete. All changes undone."
    /\ op[t].failed > 0 => op[t].result.text = "Rollback completed with errors"

\* C4 witness: a rollback whose ctx.saveConfig threw and whose uninstall was
\* refused returned with the two messages.
C4_Witness ==
  \E t \in Tasks :
    /\ RollbackDone(t)
    /\ op[t].result.isError
    /\ Len(op[t].errors) = 2
    /\ \E j \in 1 .. 2 : op[t].errors[j] = "Rollback error"
    /\ \E j \in 1 .. 2 : op[t].errors[j] = "Failed to uninstall voice"

\* Task t has returned from the named handler, called on a stored session.
Returned(t, name) == op[t].name = name /\ op[t].pc = "done" /\ op[t].obj # NoObj
\* That session as it was when the handler was called.
SessionBefore(t) == op[t].pre.heap[op[t].obj]
\* The handler of task t left the store, the sessions and the configuration
\* as they were, and called no external capability.
NoEffect(t) ==
  /\ op[t].calls = <<>>
  /\ config = op[t].pre.config
  /\ sessions = op[t].pre.sessions
  /\ heap = op[t].pre.heap
\* The value collectedValues holds for a key, Absent if none.
Collected(m, k) ==
  IF \E j \in 1 .. Len(m) : m[j].k = k
    THEN m[CHOOSE j \in 1 .. Len(m) : m[j].k = k].v
    ELSE Absent

\* C5: a rollback that directly follows a successful saveConfig(sessionId,
\* key, value) and reports "All changes undone" leaves the configuration at
\* key as it was before the save, whatever the configuration was.
C5_SaveThenRollbackRestores ==
  \A t \in Tasks :
    (RollbackDone(t) /\ op[t].before.set /\ ~op[t].result.isError) =>
      ValueAt(config, op[t].before.key) = op[t].before.was

\* C6: whichever of complete and rollback runs second on a terminal session
\* (a rollback of a completed session, a complete of a completed or removed
\* session) returns an error and has no side effect.
C6_TerminalOpsExclusive ==
  \A t \in Tasks :
    /\ (RollbackDone(t) /\ SessionBefore(t).completed) =>
         op[t].result.isError /\ NoEffect(t)
    /\ (op[t].name = "complete" /\ op[t].pc = "done"
          /\ (op[t].obj = NoObj \/ SessionBefore(t).completed)) =>
         op[t].result.isError /\ NoEffect(t)

\* C7: a complete of a stored session that was not completed sets completed,
\* changes nothing else of the session and emits one setup:complete carrying
\* the session's pluginId, the sessionId and the keys of collectedValues; a
\* complete of a completed session returns an error, emits nothing and
\* changes no state.
C7_CompletionExactlyOnce ==
  \A t \in Tasks : Returned(t, "complete") =>
    LET was == SessionBefore(t) IN
    IF ~was.completed
      THEN /\ heap[op[t].obj] = [was EXCEPT !.completed = TRUE]
           /\ Len(op[t].calls) = 1
           /\ op[t].calls[1].c = "setup:complete"
           /\ op[t].calls[1].id = was.pluginId
           /\ op[t].calls[1].sid = op[t].sid
           /\ {op[t].calls[1].keys[j] : j \in 1 .. Len(op[t].calls[1].keys)}
                = {k \in Keys : Collected(was.collectedValues, k) # Absent}
      ELSE /\ op[t].result.isError
           /\ ~op[t].result.threw
           /\ NoEffect(t)

\* C7 witness: a second complete of a session with a collected value has
\* returned.
C7_Witness ==
  \E t \in Tasks :
    /\ Returned(t, "complete")
    /\ SessionBefore(t).completed
    /\ SessionBefore(t).collectedValues # <<>>
    /\ op[t].result.text = "Setup already completed."

\* C8: a saveConfig on a session whose completed flag is set does not succeed:
\* it returns an error without writing the configuration, the ledger or
\* collectedValues.
C8_NoSaveAfterComplete ==
  \A t \in Tasks :
    (op[t].name = "saveConfig" /\ op[t].obj # NoObj /\ SessionBefore(t).completed) =>
      /\ op[t].pc = "done"
      /\ op[t].result.isError
      /\ NoEffect(t)

\* C9: a saveConfig(sessionId, key, value) that returned success has called
\* ctx.saveConfig once with key set to value, the configuration holds value at
\* key, the ledger is the former ledger with {saveConfig, key, value} appended,
\* and collectedValues holds value at key (one entry) and is otherwise as before.
C9_SaveConfigEffect ==
  \A t \in Tasks : (Returned(t, "saveConfig") /\ ~op[t].result.isError) =>
    LET was == SessionBefore(t)
        now == heap[op[t].obj]
        key == op[t].key
        value == op[t].value
    IN /\ config.defined /\ config.m[key] = value
       /\ Len(op[t].calls) = 1
       /\ op[t].calls[1].c = "saveConfig"
       /\ op[t].calls[1].arg[key] = value
       /\ now.mutations = Append(was.mutations,
            [type |-> "saveConfig", key |-> key, value |-> value, pluginId |-> ""])
       /\ Collected(now.collectedValues, key) = value
       /\ Cardinality({j \in 1 .. Len(now.collectedValues) :
                         now.collectedValues[j].k = key}) = 1
       /\ \A k \in Keys \ {key} :
            Collected(now.collectedValues, k) = Collected(was.collectedValues, k)

\* C9 witness: a successful saveConfig of a key the session had already
\* collected with another value.
C9_Witness ==
  \E t \in Tasks :
    /\ Returned(t, "saveConfig")
    /\ op[t].result.text = "Saved"
    /\ Collected(SessionBefore(t).collectedValues, op[t].key) \notin {Absent, op[t].value}
    /\ Len(heap[op[t].obj].mutations) = 2

\* The rejections of the claim, read off the schema: no field of that name, a
\* required field with null, undefined or "", a string that fails the pattern.
RejectedBySchema(fields, key, value) ==
  \/ \A j \in 1 .. Len(fields) : fields[j].name # key
  \/ \E j \in 1 .. Len(fields) :
       /\ fields[j].name = key
       /\ \/ fields[j].required /\ value \in {Null, Undefined, Str(<<>>)}
          \/ /\ value.t = "string"
             /\ fields[j].pattern # NoPattern
             /\ ~RegexTest(fields[j].pattern, value.s)

\* C10: a saveConfig the schema rejects returns an error at once and changes
\* nothing (no ctx.saveConfig call, same configuration, ledger, collectedValues
\* and store); any other saveConfig, in particular one of a non-string value
\* on a field with a pattern, passes validation and reaches ctx.saveConfig.
C10_ValidationRejectsWithoutEffect ==
  \A t \in Tasks : (op[t].name = "saveConfig" /\ op[t].obj # NoObj) =>
    IF RejectedBySchema(SessionBefore(t).configSchema, op[t].key, op[t].value)
      THEN /\ op[t].pc = "done"
           /\ op[t].result.isError
           /\ ~op[t].result.threw
           /\ NoEffect(t)
           /\ getSession(sessions, op[t].sid) = op[t].obj
      ELSE Len(op[t].calls) = 1 /\ op[t].calls[1].c = "saveConfig"

\* C10 witness: "" for a required field was rejected on a session that has a
\* ledger entry.
C10_Witness ==
  \E t \in Tasks :
    /\ Returned(t, "saveConfig")
    /\ op[t].value = Str(<<>>)
    /\ op[t].result = textResult("is required and cannot be empty", TRUE)
    /\ SessionBefore(t).mutations # <<>>

\* C11: a saveConfig whose ctx.saveConfig threw returns an error result and
\* leaves the session as it was: same ledger, same collectedValues, still in
\* the store under its id, and not completed if it was not.
C11_PersistFailureRecordsNothing ==
  \A t \in Tasks : (Returned(t, "saveConfig") /\ op[t].failed > 0) =>
    /\ op[t].result.isError
    /\ ~op[t].result.threw
    /\ heap[op[t].obj].mutations = SessionBefore(t).mutations
    /\ heap[op[t].obj].collectedValues = SessionBefore(t).collectedValues
    /\ heap[op[t].obj].completed = SessionBefore(t).completed
    /\ sessions = op[t].pre.sessions
    /\ getSession(sessions, op[t].sid) = op[t].obj

\* C11 witness: ctx.saveConfig threw for a live session that already had a
\* ledger entry.
C11_Witness ==
  \E t \in Tasks :
    /\ Returned(t, "saveConfig")
    /\ op[t].failed = 1
    /\ op[t].result.text = "Failed to save"
    /\ ~heap[op[t].obj].completed
    /\ Len(heap[op[t].obj].mutations) = 1

\* C12: an installDependency on a stored session that has returned appended
\* exactly {installDependency, pluginId} to the ledger, and returned success,
\* if the install call reported success; after a refused or thrown install it
\* returned an error and the ledger is as before.  collectedValues and
\* completed are as before in both cases.
C12_InstallRecordedIffSucceeded ==
  \A t \in Tasks : Returned(t, "installDependency") =>
    LET was == SessionBefore(t)
        now == heap[op[t].obj]
    IN /\ op[t].calls = <<CallInstall(op[t].pluginId)>>
       /\ ~op[t].result.threw
       /\ now.collectedValues = was.collectedValues
       /\ now.completed = was.completed
       /\ IF op[t].failed = 0
            THEN /\ ~op[t].result.isError
                 /\ now.mutations = Append(was.mutations,
                      [type |-> "installDependency", key |-> "", value |-> Absent,
                       pluginId |-> op[t].pluginId])
            ELSE /\ op[t].result.isError
                 /\ now.mutations = was.mutations

\* C12 witness: an install was refused for a session that has a ledger entry
\* and a collected value.
C12_Witness ==
  \E t \in Tasks :
    /\ Returned(t, "installDependency")
    /\ op[t].failed = 1
    /\ op[t].result.isError
    /\ Len(heap[op[t].obj].mutations) = 1
    /\ heap[op[t].obj].collectedValues # <<>>

\* The tools that take a sessionId and look the session up.
SessionTools == {"ask", "installDependency", "saveConfig", "complete", "rollback"}

\* C13: a session tool called with a sessionId the store does not hold has
\* returned at once with an error result, without raising, and with no effect:
\* no external call, no event, the store, the sessions and the configuration as
\* they were.
C13_MissingSessionNoEffect ==
  \A t \in Tasks :
    (op[t].name \in SessionTools /\ getSession(op[t].pre.sessions, op[t].sid) = NoObj) =>
      /\ op[t].pc = "done"
      /\ op[t].obj = NoObj
      /\ op[t].result.isError
      /\ ~op[t].result.threw
      /\ op[t].result.text = "No active setup session"
      /\ NoEffect(t)

\* C13 witness: a rollback was called for an id the store does not hold while
\* another session with a save in its ledger is stored and the configuration
\* holds its key.
C13_Witness ==
  \E t \in Tasks :
    /\ op[t].name = "rollback" /\ op[t].pc = "done"
    /\ getSession(op[t].pre.sessions, op[t].sid) = NoObj
    /\ \E s \in SessionIds :
         /\ getSession(sessions, s) # NoObj
         /\ Len(heap[getSession(sessions, s)].mutations) = 1
         /\ heap[getSession(sessions, s)].mutations[1].type = "saveConfig"
         /\ ValueAt(config, heap[getSession(sessions, s)].mutations[1].key) # Absent

\* C14: when a rollback has returned "All changes undone", the configuration
\* holds none of the keys of the saveConfig entries its ledger had, none of its
\* compensations failed, and for every installDependency entry an uninstall of
\* that plugin was called and answered with a success status.
C14_SuccessfulRollbackNoResidue ==
  \A t \in Tasks : (RollbackDone(t) /\ ~op[t].result.isError) =>
    LET led == LedgerBefore(t)
        calls == op[t].calls
    IN /\ op[t].result.text = "Rollback complete. All changes undone."
       /\ op[t].failed = 0
       /\ \A j \in 1 .. Len(led) :
            IF led[j].type = "saveConfig"
              THEN ValueAt(config, led[j].key) = Absent
              ELSE \E c \in 1 .. Len(calls) :
                     calls[c].c = "uninstall" /\ calls[c].id = led[j].pluginId

\* C14 witness: a rollback returned success for a ledger of a save and an
\* install, and the configuration held the saved key when it was called.
C14_Witness ==
  \E t \in Tasks :
    /\ RollbackDone(t)
    /\ ~op[t].result.isError
    /\ Len(LedgerBefore(t)) = 2
    /\ \E j \in 1 .. 2 : LedgerBefore(t)[j].type = "installDependency"
    /\ \E j \in 1 .. 2 :
         /\ LedgerBefore(t)[j].type = "saveConfig"
         /\ ValueAt(op[t].pre.config, LedgerBefore(t)[j].key) # Absent

\* The seven tools of createSetupTools.
Tools == SessionTools \cup {"validateKey", "testConnection"}

\* C15: whatever the external capabilities do, a tool handler that has
\* finished has returned a result (tagged success or error), it has not raised.
C15_NoOperationRaises ==
  \A t \in Tasks : (op[t].pc = "done" /\ op[t].name \in Tools) =>
    /\ ~op[t].result.threw
    /\ op[t].result.isError \in BOOLEAN

\* C16: isSetupActive(id) is true exactly for the ids the store holds a
\* session under whose completed flag is false.  So it is true for the id of a
\* beginSetup that has just run, false for the id of a complete that has just
\* succeeded and of a rollback that has just returned, and false for every id
\* once shutdown has cleared the store.
C16_ActiveIffStoredAndOpen ==
  /\ \A s \in SessionIds :
       isSetupActive(sessions, heap, s) <=>
         \E o \in ObjIds : sessions[s] = o /\ heap[o].used /\ heap[o].completed = FALSE
  /\ \A t \in Tasks : op[t].pc = "done" =>
       /\ op[t].name = "beginSetup" => isSetupActive(sessions, heap, op[t].sid)
       /\ (Returned(t, "complete") /\ ~op[t].result.isError) =>
            ~isSetupActive(sessions, heap, op[t].sid)
       /\ RollbackDone(t) => ~isSetupActive(sessions, heap, op[t].sid)
       /\ op[t].name = "shutdown" =>
            \A s \in SessionIds : ~isSetupActive(sessions, heap, s)

\* C16 witness: a complete has succeeded on a session, which is still stored
\* and not active, while the other stored session is active.
C16_Witness ==
  \E t \in Tasks :
    /\ Returned(t, "complete")
    /\ op[t].result.text = "Setup complete"
    /\ getSession(sessions, op[t].sid) = op[t].obj
    /\ ~isSetupActive(sessions, heap, op[t].sid)
    /\ \E s \in SessionIds \ {op[t].sid} : isSetupActive(sessions, heap, s)

\* C17: a beginSetup(sessionId, pluginId, configSchema) has returned without
\* raising; the store holds under sessionId a session with that pluginId and
\* schema, an empty ledger, empty collectedValues and completed false, whatever
\* was stored under the id before; every other id holds the session it held,
\* unchanged.
C17_CreateOverwrites ==
  \A t \in Tasks : op[t].name = "beginSetup" =>
    /\ op[t].pc = "done"
    /\ ~op[t].result.threw
    /\ getSession(sessions, op[t].sid) # NoObj
    /\ heap[getSession(sessions, op[t].sid)] =
         [used |-> TRUE, sessionId |-> op[t].sid, pluginId |-> op[t].pluginId,
          configSchema |-> op[t].configSchema, mutations |-> <<>>,
          collectedValues |-> <<>>, completed |-> FALSE]
    /\ \A s \in SessionIds \ {op[t].sid} :
         /\ getSession(sessions, s) = getSession(op[t].pre.sessions, s)
         /\ getSession(sessions, s) # NoObj =>
              heap[getSession(sessions, s)] = op[t].pre.heap[getSession(sessions, s)]

\* C17 witness: beginSetup ran for an id that held a completed session with a
\* ledger entry and another schema.
C17_Witness ==
  \E t \in Tasks :
    /\ op[t].name = "beginSetup" /\ op[t].pc = "done"
    /\ getSession(op[t].pre.sessions, op[t].sid) # NoObj
    /\ LET old == op[t].pre.heap[getSession(op[t].pre.sessions, op[t].sid)]
       IN /\ old.completed
          /\ Len(old.mutations) = 1
          /\ old.configSchema # op[t].configSchema

\* C19: after a complete that returned success the store still holds the
\* session under its id, with completed true and its ledger, collectedValues,
\* pluginId and configSchema as they were; the store and the configuration
\* are as they were.
C19_CompleteKeepsSession ==
  \A t \in Tasks :
    (Returned(t, "complete") /\ ~op[t].result.isError /\ ~op[t].result.threw) =>
      /\ getSession(sessions, op[t].sid) = op[t].obj
      /\ heap[op[t].obj].completed = TRUE
      /\ heap[op[t].obj].mutations = SessionBefore(t).mutations
      /\ heap[op[t].obj].collectedValues = SessionBefore(t).collectedValues
      /\ heap[op[t].obj].pluginId = SessionBefore(t).pluginId
      /\ heap[op[t].obj].configSchema = SessionBefore(t).configSchema
      /\ sessions = op[t].pre.sessions
      /\ config = op[t].pre.config

\* C19 witness: a complete succeeded on a session with a two-entry ledger and
\* a collected value.
C19_Witness ==
  \E t \in Tasks :
    /\ Returned(t, "complete")
    /\ op[t].result.text = "Setup complete"
    /\ ~op[t].result.threw
    /\ Len(heap[op[t].obj].mutations) = 2
    /\ heap[op[t].obj].collectedValues # <<>>
    /\ ~SessionBefore(t).completed

\* C20: a validateKey that has finished has not raised, and: for a provider
\* that is not one of the supported ones the result is valid = false with the
\* "Unknown provider" error and no network call was made; for a supported
\* provider valid is true exactly when the response was a success, a rejected
\* credential gives the provider's HTTP-status message and a transport failure
\* gives valid = false with the "Network error" message.
C20_ValidateKeyOutcomes ==
  \A t \in Tasks : (op[t].name = "validateKey" /\ op[t].pc = "done") =>
    /\ ~op[t].result.threw
    /\ IF op[t].provider \notin SupportedProviders
         THEN /\ op[t].validation = [valid |-> "false", error |-> "Unknown provider"]
              /\ op[t].calls = <<>>
              /\ op[t].result.isError
         ELSE /\ op[t].validation.valid = "true" <=> op[t].outcome = "ok"
              /\ op[t].result.isError <=> op[t].outcome # "ok"
              /\ op[t].outcome = "fail" =>
                   /\ op[t].validation.valid = "false"
                   /\ op[t].validation.error # "Network error"
              /\ op[t].outcome = "throw" =>
                   op[t].validation = [valid |-> "false", error |-> "Network error"]

\* Two conversations, each serialised by its caller and each on a session of
\* its own; their handlers interleave at the awaits.
ConcValues == {Null, Str(<<"x">>)}
NextConc ==
  \/ SessionStep("t1", {"s1"}, ConcValues)
  \/ SessionStep("t2", {"s2"}, ConcValues)

SpecConc == Init /\ [][NextConc]_vars

\* A step of task t, which runs an operation on the session id op'[t].sid,
\* leaves every other id's store entry as it is, and leaves as it is every
\* session object of another id that the store or another handler holds.
OthersUntouched(t) ==
  op'[t] # op[t] =>
    \A s \in SessionIds \ {op'[t].sid} :
      /\ sessions'[s] = sessions[s]
      /\ \A o \in Referenced(t) \ {NoObj} :
           (heap[o].used /\ heap[o].sessionId = s) => heap'[o] = heap[o]

\* C18: under every interleaving of two handlers' steps, a step of an
\* operation on one session (a rollback's steps included) changes neither the
\* ledger, collectedValues or completed flag of a session with another id nor
\* which session the store holds under another id.
C18_SessionsIndependent == [][\A t \in Tasks : OthersUntouched(t)]_vars

\* C18 witness: a rollback of a one-entry ledger has returned, and the other
\* task's session, created while that rollback was suspended, is stored and
\* open.
C18_Witness ==
  \E t \in Tasks : \E u \in Tasks \ {t} :
    /\ RollbackDone(t)
    /\ Len(LedgerBefore(t)) = 1
    /\ op[u].name = "beginSetup"
    /\ getSession(op[t].pre.sessions, op[u].sid) = NoObj
    /\ getSession(sessions, op[u].sid) = op[u].obj
    /\ isSetupActive(sessions, heap, op[u].sid)

\* The compensations of the rollback of task t that have been started and
\* have not settled yet: o.i - 1 of the calls have settled when the handler
\* waits for the o.i-th.
InFlight(t) == Len(op[t].calls) - (op[t].i - 1)

\* C21: a rollback that has not returned waits for exactly one compensating
\* call, the op[t].i-th, all earlier ones having settled; it has started the
\* compensations of the last op[t].i ledger entries only, latest entry first,
\* so the compensation of an entry starts only when the one of the entry
\* recorded after it has settled.  A rollback that has returned has no call in
\* flight.
C21_CompensationsSequential ==
  \A t \in Tasks : RollbackOf(t) =>
    LET led == LedgerBefore(t)
        n == Len(led)
    IN /\ InFlight(t) \in {0, 1}
       /\ op[t].pc # "done" =>
            /\ op[t].pc \in {"awaitSaveConfig", "awaitFetch"}
            /\ InFlight(t) = 1
            /\ op[t].i \in 1 .. n
            /\ Compensates(op[t].calls[op[t].i], led[n + 1 - op[t].i])
       /\ op[t].pc = "done" => InFlight(t) = 0 /\ op[t].i = n + 1

\* C21 witness: a rollback of a two-entry ledger waits for its second
\* compensation, the first one having failed.
C21_Witness ==
  \E t \in Tasks :
    /\ RollbackOf(t)
    /\ op[t].pc \in {"awaitSaveConfig", "awaitFetch"}
    /\ Len(LedgerBefore(t)) = 2
    /\ op[t].i = 2
    /\ op[t].failed = 1
    /\ Len(op[t].calls) = 2

\* The step is one of task t, by the operation op'[t].name.
StepOf(t) == op'[t] # op[t]

\* Ledger `new` is ledger `old` with one entry added at its end.
ExtendedByOne(old, new) ==
  Len(new) = Len(old) + 1 /\ SubSeq(new, 1, Len(old)) = old

\* C22: a step of an operation other than rollback leaves the ledger of every
\* session in the store as it is or with exactly one entry more at its end; a
\* step of a rollback leaves it as it is or empties it.
C22_LedgerAppendOnly ==
  [][\A t \in Tasks : StepOf(t) =>
       \A s \in SessionIds : sessions[s] # NoObj =>
         LET old == heap[sessions[s]].mutations
             new == heap'[sessions[s]].mutations
         IN IF op'[t].name = "rollback"
              THEN new = old \/ new = <<>>
              ELSE new = old \/ ExtendedByOne(old, new)]_vars

\* C22 witness: a saveConfig and an installDependency have each extended the
\* ledger of a stored session by their entry.
C22_Witness ==
  \E t \in Tasks :
    /\ Returned(t, "installDependency")
    /\ getSession(sessions, op[t].sid) = op[t].obj
    /\ Len(SessionBefore(t).mutations) = 1
    /\ SessionBefore(t).mutations[1].type = "saveConfig"
    /\ ExtendedByOne(SessionBefore(t).mutations, heap[op[t].obj].mutations)

\* One conversation on one session, in which every external call a rollback
\* waits for settles at some time.
NextLive == SessionStep("t1", {"s1"}, ConcValues)

SpecLive ==
  /\ Init
  /\ [][NextLive]_vars
  /\ WF_vars(\E outcome \in Outcomes : rollbackReturn("t1", outcome))

\* The rollback of task t has returned after one compensation attempt per
\* ledger entry, and the store has no session under its id.
RollbackReturnedClean(t) ==
  /\ RollbackDone(t)
  /\ Len(op[t].calls) = Len(LedgerBefore(t))
  /\ getSession(sessions, op[t].sid) = NoObj

\* C23: when the external calls settle, a rollback called on a stored session
\* returns, with exactly one compensation attempt per ledger entry made and the
\* session gone from the store; and as long as it has not returned it is
\* waiting for an external call it has issued.
C23_RollbackTerminates ==
  /\ [](\A t \in Tasks : (RollbackOf(t) /\ op[t].pc # "done") =>
          /\ op[t].pc \in {"awaitSaveConfig", "awaitFetch"}
          /\ Len(op[t].calls) = op[t].i)
  /\ \A t \in Tasks : RollbackOf(t) ~> RollbackReturnedClean(t)

\* C23 witness: a rollback of a two-entry ledger has returned, both of its
\* compensations having failed, and the session is gone.
C23_Witness ==
  \E t \in Tasks :
    /\ RollbackReturnedClean(t)
    /\ Len(LedgerBefore(t)) = 2
    /\ op[t].failed = 2
    /\ Len(op[t].errors) = 2

\* No handler is running or suspended.
Quiescent == \A t \in Tasks : op[t].pc \in {"idle", "done"}

\* The positions of the saveConfig entries for key k in a ledger.
SavesOf(led, k) == {j \in 1 .. Len(led) : led[j].type = "saveConfig" /\ led[j].key = k}

\* C24: with no operation in flight, for every session in the store the keys
\* of collectedValues (each held once) are the keys of the saveConfig entries
\* of its ledger, and the value held for a key is the value of the last
\* saveConfig entry for that key.
C24_CollectedMatchesLedger ==
  Quiescent =>
    \A s \in SessionIds : getSession(sessions, s) # NoObj =>
      LET session == heap[getSession(sessions, s)]
          cv == session.collectedValues
          led == session.mutations
      IN /\ \A i, j \in 1 .. Len(cv) : cv[i].k = cv[j].k => i = j
         /\ {cv[j].k : j \in 1 .. Len(cv)} = {k \in Keys : SavesOf(led, k) # {}}
         /\ \A j \in 1 .. Len(cv) :
              LET saves == SavesOf(led, cv[j].k)
              IN cv[j].v = led[CHOOSE l \in saves : \A x \in saves : x <= l].value

\* C24 witness: a stored session whose ledger holds two saves of one key with
\* different values and a save of another key, with nothing in flight.
C24_Witness ==
  /\ Quiescent
  /\ \E s \in SessionIds :
       /\ getSession(sessions, s) # NoObj
       /\ LET led == heap[getSession(sessions, s)].mutations
          IN /\ Len(led) = 3
             /\ \E k \in Keys :
                  /\ Cardinality(SavesOf(led, k)) = 2
                  /\ \E i, j \in SavesOf(led, k) : led[i].value # led[j].value
             /\ Len(heap[getSession(sessions, s)].collectedValues) = 2

\* Task t has returned from a saveConfig with success.
Saved(t) == Returned(t, "saveConfig") /\ ~op[t].result.isError
\* Both have saved: t was called before u returned (the ledger t found for u's
\* session did not have u's entry yet).
CalledBeforeReturnOf(t, u) ==
  Len(op[t].pre.heap[op[u].obj].mutations) < Len(heap[op[u].obj].mutations)

\* C25: when two saveConfig of two sessions, on two keys, have overlapped and
\* have both returned success, the configuration holds both keys with the
\* values saved.
C25_NoLostUpdate ==
  \A t \in Tasks : \A u \in Tasks \ {t} :
    ( /\ Saved(t) /\ Saved(u)
      /\ op[t].sid # op[u].sid
      /\ op[t].key # op[u].key
      /\ CalledBeforeReturnOf(t, u) /\ CalledBeforeReturnOf(u, t) ) =>
      /\ ValueAt(config, op[t].key) = op[t].value
      /\ ValueAt(config, op[u].key) = op[u].value

\* Two handlers called for the same session without waiting for one another.
NextSame ==
  \/ SessionStep("t1", {"s1"}, ConcValues)
  \/ SessionStep("t2", {"s1"}, ConcValues)

SpecSame == Init /\ [][NextSame]_vars

\* C26: every entry a rollback has cleared from the ledger has had its
\* compensation attempted by that rollback, also an entry that a saveConfig or
\* installDependency appended while the rollback was suspended; and no complete
\* has succeeded on a session between the call of its rollback and the
\* rollback's cleanup.
C26_DiscardedMeansCompensated ==
  \A t \in Tasks :
    /\ RollbackDone(t) =>
         LET cl == op[t].cleared
             calls == op[t].calls
         IN /\ Len(calls) = Len(cl)
            /\ \A j \in 1 .. Len(cl) : Compensates(calls[j], cl[Len(cl) + 1 - j])
    /\ \A u \in Tasks \ {t} :
         ~ ( /\ RollbackOf(t)
             /\ ~SessionBefore(t).completed
             /\ Returned(u, "complete")
             /\ op[u].obj = op[t].obj
             /\ ~op[u].result.isError )

\* C27: when an operation has made a session that was not completed
\* unreachable through the store (a rollback, a beginSetup for the same id, a
\* shutdown), it has attempted the compensation of every entry that session's
\* ledger had.
C27_NoEntryDroppedUncompensated ==
  \A t \in Tasks : op[t].pc = "done" =>
    \A s \in SessionIds :
      LET o == getSession(op[t].pre.sessions, s) IN
      (o # NoObj /\ getSession(sessions, s) # o /\ ~op[t].pre.heap[o].completed) =>
        LET led == op[t].pre.heap[o].mutations
        IN \A j \in 1 .. Len(led) :
             \E c \in 1 .. Len(op[t].calls) : Compensates(op[t].calls[c], led[j])

\* The state once the host has called beginSetup for both session ids.
InitPair ==
  /\ sessions = [s \in SessionIds |-> IF s = "s1" THEN 1 ELSE 2]
  /\ heap = [o \in ObjIds |->
               IF o = 1 THEN createSession("s1", "discord", SchemaA)
               ELSE IF o = 2 THEN createSession("s2", "discord", SchemaA)
               ELSE FreeObj]
  /\ config \in InitConfigs
  /\ hostLive \in BOOLEAN
  /\ op = [t \in Tasks |-> IdleOp]
  /\ nops = 0

\* One caller, serving both sessions, one operation after the other.
NextPair == SessionStep("t1", SessionIds, ConcValues)

SpecPair == InitPair /\ [][NextPair]_vars

\* C28: with no operation in flight, every key a stored session holds in
\* collectedValues is present in the configuration; so the rollback of one
\* session does not remove a key another stored session has saved.
C28_CollectedKeysConfigured ==
  Quiescent =>
    \A s \in SessionIds : getSession(sessions, s) # NoObj =>
      LET cv == heap[getSession(sessions, s)].collectedValues
      IN \A j \in 1 .. Len(cv) : ValueAt(config, cv[j].k) # Absent

====
